---- MODULE Spec2Model ----
(***************************************************************************)
(* CFGParser: the character-driven parse loop of CFGParser::load, the      *)
(* recursive include, save, and the value resolver (getString).            *)
(*                                                                         *)
(* A character is a one-character string, a std::string is a sequence of   *)
(* characters.  _section_data is a function from section names to Section  *)
(* records.  Every invocation of load is a frame on `stack`; the locals of *)
(* load (token buffers, parse_action, section_ptr, counters) live in the   *)
(* frame.  The bytes of a file are revealed to the parse loop chunk by     *)
(* chunk (field `rest` holds the bytes revealed and not yet read, `more`   *)
(* how many chunks may still follow).                                      *)
(***************************************************************************)
EXTENDS Integers, Sequences, FiniteSets, TLC

VARIABLES section_data, current_file, stack, diag, phase, fam, last,
          dupKeys, saved

vars == <<section_data, current_file, stack, diag, phase, fam, last,
          dupKeys, saved>>

(* ------------------------------ bounds --------------------------------- *)
\* chunks (lines) a top-level file may consist of
MaxLines == 5
\* chunks (lines) an included file may consist of
MaxIncLines == 2
\* nesting depth of load invocations (1 = no include is followed)
MaxDepth == 2

(* ---------------------------- characters ------------------------------- *)
NL == "\n"
TAB == "\t"
BS == "\\"
QUOTE == "\""
Include == <<"i", "n", "c", "l", "u", "d", "e">>

(* --------------------------- Document Model ---------------------------- *)
\* struct Section
EmptySection == [inheritances |-> <<>>, attributes |-> <<>>, values |-> <<>>]

\* std::unordered_map::try_emplace / operator[] on a map m
MapPut(m, k, v) == [x \in (DOMAIN m) \cup {k} |-> IF x = k THEN v ELSE m[x]]

\* _base_path is the empty string unless setBasePath is called
base_path == <<>>

(* ------------------------- locals of load() ---------------------------- *)
\* g_duphdr, g_base, g_entry and g_line are history fields: the name rejected
\* by a `]` of the current header when that header has created no section,
\* _section_data at entry of this load, the <<key, value>> the last
\* iteration committed or dropped at a newline, and the locals and
\* _section_data at the start of the current physical line.  g_text holds
\* the characters read of the current physical line (the whole line, with its
\* newline, until the first character of the next line is read).
Strip(f) ==
  [section |-> f.section, inheritance |-> f.inheritance,
   attribute |-> f.attribute, key |-> f.key, value |-> f.value,
   pp_first |-> f.pp_first, pp_second |-> f.pp_second,
   section_ptr |-> f.section_ptr, parse_action |-> f.parse_action,
   ignore_current_spaces |-> f.ignore_current_spaces]

NewFrame(n, d) ==
  [pc |-> "loop", file |-> <<>>,
   section |-> <<>>, inheritance |-> <<>>, attribute |-> <<>>,
   key |-> <<>>, value |-> <<>>, pp_first |-> <<>>, pp_second |-> <<>>,
   section_ptr |-> <<>>, parse_action |-> "NEW_LINE",
   line |-> 1, character_pos |-> 0, ignore_current_spaces |-> TRUE,
   rest |-> <<>>, more |-> n, eof |-> FALSE,
   g_duphdr |-> <<>>, g_base |-> d, g_entry |-> <<>>, g_text |-> <<>>,
   g_line |-> [f |-> [section |-> <<>>, inheritance |-> <<>>,
                      attribute |-> <<>>, key |-> <<>>, value |-> <<>>,
                      pp_first |-> <<>>, pp_second |-> <<>>,
                      section_ptr |-> <<>>, parse_action |-> "NEW_LINE",
                      ignore_current_spaces |-> TRUE],
               d |-> d]]

\* result of one switch case: the locals, _section_data, the diagnostics
R(f, d, m) == [f |-> f, d |-> d, msgs |-> m]

\* the lambda msg(): one diagnostic through _msg_functor
Err(f, d, m) == R([f EXCEPT !.parse_action = "ERROR"], d, <<m>>)

AddValue(f, d, c) == R([f EXCEPT !.value = Append(@, c)], d, <<>>)

(* ----------------------- lambdas of load() ----------------------------- *)
\* mutant: the inherited name is stored without looking it up
PushInheritance_unchecked(f, d) ==
  IF f.inheritance # <<>> /\ f.section_ptr # <<>>
  THEN R([f EXCEPT !.inheritance = <<>>],
         [d EXCEPT ![f.section_ptr[1]].inheritances = Append(@, f.inheritance)],
         <<>>)
  ELSE R(f, d, <<>>)

PushInheritance(f, d) ==
  IF f.inheritance # <<>> /\ f.section_ptr # <<>>
  THEN IF f.inheritance \in DOMAIN d
       THEN R([f EXCEPT !.inheritance = <<>>],
              [d EXCEPT ![f.section_ptr[1]].inheritances =
                           Append(@, f.inheritance)],
              <<>>)
       ELSE R([f EXCEPT !.inheritance = <<>>], d,
              <<"Inherited section is not exist">>)
  ELSE R(f, d, <<>>)

PushAttribute(f, d) ==
  IF f.attribute # <<>> /\ f.section_ptr # <<>>
  THEN R([f EXCEPT !.attribute = <<>>],
         [d EXCEPT ![f.section_ptr[1]].attributes = Append(@, f.attribute)],
         <<>>)
  ELSE R(f, d, <<>>)

(* --------------------- the switch on `character` ----------------------- *)
OnSemicolon(f, d, c) ==
  IF f.parse_action = "STRING_VALUE"
  THEN AddValue(f, d, c)
  ELSE R([f EXCEPT !.parse_action = "COMMENT"], d, <<>>)

OnPipe(f, d, c) ==
  CASE f.parse_action = "STRING_VALUE" -> AddValue(f, d, c)
    [] f.parse_action = "MULTILINE_COMMENT" ->
         R([f EXCEPT !.parse_action = "NEW_LINE"], d, <<>>)
    [] OTHER -> R([f EXCEPT !.parse_action = "MULTILINE_COMMENT"], d, <<>>)

OnSpace(f, d, c) ==
  CASE f.parse_action = "STRING_VALUE" -> AddValue(f, d, c)
    [] f.parse_action = "PREPROCESSOR" ->
         R([f EXCEPT !.parse_action =
                        IF f.pp_first = Include THEN "INCLUDE" ELSE @,
                     !.pp_first = <<>>], d, <<>>)
    [] f.parse_action \in {"ATTRIBUTE", "INHERITANCE", "KEY", "SECTION",
                           "VALUE"} ->
         IF ~f.ignore_current_spaces
         THEN Err(f, d, "Space in wrong place")
         ELSE R(f, d, <<>>)
    [] OTHER -> R(f, d, <<>>)

\* la is what the inner file.get() returns: <<>> at end of file, else <<ch>>
OnBackslash(f, d, la) ==
  CASE f.parse_action \in {"COMMENT", "MULTILINE_COMMENT"} -> R(f, d, <<>>)
    [] f.parse_action = "STRING_VALUE" ->
         IF la # <<>> /\ la[1] \in {BS, "n", QUOTE, "'"}
         THEN AddValue(f, d, IF la[1] = "n" THEN NL ELSE la[1])
         ELSE R(f, d, <<"Unknown escape-sequence symbol">>)
    [] OTHER -> Err(f, d, "Unexpected escape-symbol")

OnQuote(f, d) ==
  CASE f.parse_action = "STRING_VALUE" ->
         R([f EXCEPT !.parse_action = "VALUE"], d, <<>>)
    [] f.parse_action = "VALUE" ->
         R([f EXCEPT !.parse_action = "STRING_VALUE"], d, <<>>)
    [] OTHER -> R(f, d, <<>>)

OnHash(f, d, c) ==
  CASE f.parse_action \in {"COMMENT", "MULTILINE_COMMENT"} -> R(f, d, <<>>)
    [] f.parse_action = "NEW_LINE" ->
         R([f EXCEPT !.parse_action = "PREPROCESSOR"], d, <<>>)
    [] f.parse_action = "STRING_VALUE" -> AddValue(f, d, c)
    [] OTHER -> Err(f, d, "Preprocessor parse error")

OnNewline(f, d) ==
  LET r == CASE f.parse_action \in {"COMMENT", "MULTILINE_COMMENT"} ->
                  R(f, d, <<>>)
             [] f.parse_action = "INHERITANCE" -> PushInheritance(f, d)
             [] f.parse_action \in {"PREPROCESSOR", "INCLUDE"} -> R(f, d, <<>>)
             [] f.parse_action = "ATTRIBUTE" -> PushAttribute(f, d)
             [] f.parse_action \in {"VALUE", "VALUE_ARRAY"} ->
                  R([f EXCEPT !.key = <<>>, !.value = <<>>],
                    IF f.section_ptr # <<>>
                    THEN [d EXCEPT ![f.section_ptr[1]].values =
                                     MapPut(@, f.key, f.value)]
                    ELSE d,
                    <<>>)
             [] f.parse_action \in {"STRING_VALUE", "NEW_LINE"} -> R(f, d, <<>>)
             [] f.parse_action = "SECTION" ->
                  R([f EXCEPT !.parse_action = "NEW_LINE"], d, <<>>)
             [] OTHER -> Err(f, d, "New line parse error")
      g == r.f
      reset == g.parse_action \notin {"STRING_VALUE", "MULTILINE_COMMENT"}
  IN  R([g EXCEPT !.parse_action = IF reset THEN "NEW_LINE" ELSE @,
                  !.character_pos = IF reset THEN 0 ELSE @,
                  !.line = @ + 1,
                  !.ignore_current_spaces = TRUE],
        r.d, r.msgs)

OnLess(f, d, c) ==
  IF f.parse_action = "STRING_VALUE" THEN AddValue(f, d, c) ELSE R(f, d, <<>>)

\* the INCLUDE case calls IncludeFile; see IncludeFile below
OnGreater(f, d, c) ==
  IF f.parse_action = "STRING_VALUE" THEN AddValue(f, d, c) ELSE R(f, d, <<>>)

OnLBracket(f, d, c) ==
  CASE f.parse_action \in {"COMMENT", "MULTILINE_COMMENT"} -> R(f, d, <<>>)
    [] f.parse_action = "NEW_LINE" ->
         R([f EXCEPT !.ignore_current_spaces = FALSE,
                     !.parse_action = "SECTION",
                     !.section = <<>>,
                     !.section_ptr = <<>>], d, <<>>)
    [] f.parse_action = "STRING_VALUE" -> AddValue(f, d, c)
    [] OTHER -> Err(f, d, "Section naming parse error")

\* mutant: section_ptr is taken from the iterator also when the name exists
SectionEmplace_keepPtr(f, d) ==
  IF f.section \notin DOMAIN d
  THEN R([f EXCEPT !.section_ptr = <<f.section>>,
                   !.ignore_current_spaces = TRUE],
         MapPut(d, f.section, EmptySection), <<>>)
  ELSE R([f EXCEPT !.section_ptr = <<f.section>>,
                   !.ignore_current_spaces = TRUE], d,
         <<"Section already exist">>)

\* mutant: insert_or_assign instead of try_emplace
SectionEmplace_assign(f, d) ==
  R([f EXCEPT !.section_ptr = <<f.section>>, !.ignore_current_spaces = TRUE],
    MapPut(d, f.section, EmptySection),
    IF f.section \in DOMAIN d THEN <<"Section already exist">> ELSE <<>>)

\* case SECTION of ']': _section_data.try_emplace(section, Section{})
SectionEmplace(f, d) ==
  IF f.section \notin DOMAIN d
  THEN R([f EXCEPT !.section_ptr = <<f.section>>,
                   !.ignore_current_spaces = TRUE],
         MapPut(d, f.section, EmptySection), <<>>)
  ELSE R([f EXCEPT !.ignore_current_spaces = TRUE], d,
         <<"Section already exist">>)

OnRBracket(f, d, c) ==
  CASE f.parse_action \in {"COMMENT", "MULTILINE_COMMENT"} -> R(f, d, <<>>)
    [] f.parse_action = "SECTION" -> SectionEmplace(f, d)
    [] f.parse_action = "STRING_VALUE" -> AddValue(f, d, c)
    [] OTHER -> Err(f, d, "Section naming parse error")

\* mutant: a comma inside a quoted string starts an array
OnComma_splitInString(f, d, c) ==
  CASE f.parse_action \in {"COMMENT", "MULTILINE_COMMENT"} -> R(f, d, <<>>)
    [] f.parse_action = "INHERITANCE" -> PushInheritance(f, d)
    [] f.parse_action = "ATTRIBUTE" -> PushAttribute(f, d)
    [] f.parse_action = "VALUE_ARRAY" -> AddValue(f, d, c)
    [] f.parse_action \in {"VALUE", "STRING_VALUE"} ->
         AddValue([f EXCEPT !.parse_action = "VALUE_ARRAY"], d, c)
    [] OTHER -> Err(f, d, "Enumeration error")

OnComma(f, d, c) ==
  CASE f.parse_action \in {"COMMENT", "MULTILINE_COMMENT"} -> R(f, d, <<>>)
    [] f.parse_action = "INHERITANCE" -> PushInheritance(f, d)
    [] f.parse_action = "ATTRIBUTE" -> PushAttribute(f, d)
    [] f.parse_action \in {"STRING_VALUE", "VALUE_ARRAY"} -> AddValue(f, d, c)
    [] f.parse_action = "VALUE" ->
         AddValue([f EXCEPT !.parse_action = "VALUE_ARRAY"], d, c)
    [] OTHER -> Err(f, d, "Enumeration error")

OnColon(f, d, c) ==
  CASE f.parse_action \in {"COMMENT", "MULTILINE_COMMENT"} -> R(f, d, <<>>)
    [] f.parse_action = "SECTION" ->
         R([f EXCEPT !.parse_action = "INHERITANCE"], d, <<>>)
    [] f.parse_action = "STRING_VALUE" -> AddValue(f, d, c)
    [] OTHER -> Err(f, d, "Inheritance error")

\* mutant: without a section context the key goes to the section named last
KeyEmplace_bySectionName(f, d) ==
  IF f.section_ptr # <<>>
  THEN IF f.key \notin DOMAIN d[f.section_ptr[1]].values
       THEN R([f EXCEPT !.parse_action = "VALUE"],
              [d EXCEPT ![f.section_ptr[1]].values = MapPut(@, f.key, <<>>)],
              <<>>)
       ELSE R([f EXCEPT !.parse_action = "VALUE"], d, <<"Key already exist">>)
  ELSE R([f EXCEPT !.parse_action = "VALUE"],
         IF f.section \in DOMAIN d
         THEN [d EXCEPT ![f.section].values = MapPut(@, f.key, <<>>)]
         ELSE d,
         <<>>)

\* case KEY of '=': section_ptr->values.try_emplace(key, std::string{})
KeyEmplace(f, d) ==
  IF f.section_ptr # <<>>
  THEN IF f.key \notin DOMAIN d[f.section_ptr[1]].values
       THEN R([f EXCEPT !.parse_action = "VALUE"],
              [d EXCEPT ![f.section_ptr[1]].values = MapPut(@, f.key, <<>>)],
              <<>>)
       ELSE R([f EXCEPT !.parse_action = "VALUE"], d, <<"Key already exist">>)
  ELSE R([f EXCEPT !.parse_action = "VALUE"], d, <<>>)

OnEquals(f, d, c) ==
  CASE f.parse_action \in {"COMMENT", "MULTILINE_COMMENT"} -> R(f, d, <<>>)
    [] f.parse_action = "SECTION" ->
         R([f EXCEPT !.parse_action = "ATTRIBUTE"], d, <<>>)
    [] f.parse_action = "INHERITANCE" ->
         LET r == PushInheritance(f, d)
         IN  R([r.f EXCEPT !.parse_action = "ATTRIBUTE"], r.d, r.msgs)
    [] f.parse_action = "KEY" -> KeyEmplace(f, d)
    [] f.parse_action = "STRING_VALUE" -> AddValue(f, d, c)
    [] OTHER -> Err(f, d, "Set value error")

OnDefault(f, d, c) ==
  CASE f.parse_action \in {"COMMENT", "MULTILINE_COMMENT"} -> R(f, d, <<>>)
    [] f.parse_action = "NEW_LINE" ->
         R([f EXCEPT !.parse_action = "KEY", !.key = Append(@, c)], d, <<>>)
    [] f.parse_action = "PREPROCESSOR" ->
         R([f EXCEPT !.pp_first = Append(@, c)], d, <<>>)
    [] f.parse_action = "INCLUDE" ->
         R([f EXCEPT !.pp_second = Append(@, c)], d, <<>>)
    [] f.parse_action = "SECTION" ->
         R([f EXCEPT !.section = Append(@, c)], d, <<>>)
    [] f.parse_action = "INHERITANCE" ->
         R([f EXCEPT !.inheritance = Append(@, c)], d, <<>>)
    [] f.parse_action = "ATTRIBUTE" ->
         R([f EXCEPT !.attribute = Append(@, c)], d, <<>>)
    [] f.parse_action = "KEY" -> R([f EXCEPT !.key = Append(@, c)], d, <<>>)
    [] f.parse_action \in {"VALUE", "VALUE_ARRAY", "STRING_VALUE"} ->
         AddValue(f, d, c)
    [] OTHER -> Err(f, d, "Invalid character error")

\* one pass through the switch for character c (la: the byte after c)
Switch(f, d, c, la) ==
  CASE c = ";" -> OnSemicolon(f, d, c)
    [] c = "|" -> OnPipe(f, d, c)
    [] c \in {" ", TAB} -> OnSpace(f, d, c)
    [] c = BS -> OnBackslash(f, d, la)
    [] c = QUOTE -> OnQuote(f, d)
    [] c = "#" -> OnHash(f, d, c)
    [] c = NL -> OnNewline(f, d)
    [] c = "<" -> OnLess(f, d, c)
    [] c = ">" -> OnGreater(f, d, c)
    [] c = "[" -> OnLBracket(f, d, c)
    [] c = "]" -> OnRBracket(f, d, c)
    [] c = "," -> OnComma(f, d, c)
    [] c = ":" -> OnColon(f, d, c)
    [] c = "=" -> OnEquals(f, d, c)
    [] OTHER -> OnDefault(f, d, c)

\* one iteration of the while loop: the switch, then ++character_pos
Iteration(f, d, c, la) ==
  LET r == Switch(f, d, c, la)
  IN  R([r.f EXCEPT !.character_pos = @ + 1], r.d, r.msgs)

\* the text of the current physical line after the characters cs are read
LineText(f, cs) ==
  IF f.g_text # <<>> /\ f.g_text[Len(f.g_text)] = NL THEN cs
  ELSE f.g_text \o cs

\* history fields after an iteration that read c in frame f
Ghost(f, c, r) ==
  LET g == r.f
      hdr == IF /\ \E i \in 1..Len(r.msgs) :
                        r.msgs[i] = "Section already exist"
                /\ f.section_ptr = <<>>
             THEN <<f.section>>
             ELSE IF c = "[" /\ f.parse_action = "NEW_LINE"
                  THEN <<>> ELSE f.g_duphdr
      startsLine == c = NL /\ g.parse_action = "NEW_LINE"
  IN  [g EXCEPT !.g_duphdr = hdr,
                !.g_entry = IF c = NL /\ f.parse_action \in {"VALUE", "VALUE_ARRAY"}
                            THEN <<f.key, f.value>> ELSE <<>>,
                !.g_line = IF startsLine THEN [f |-> Strip(g), d |-> r.d]
                           ELSE @]

(* ------------------------------ files ---------------------------------- *)
MainPath == <<"m">>
IncPath == <<"f">>
MissingPath == <<"g">>
\* the paths std::ifstream can open
Files == {MainPath, IncPath}

L_a == <<"[", "a", "]", NL>>
L_b == <<"[", "b", "]", NL>>
L_c == <<"[", "c", "]", NL>>
L_x == <<"[", "x", "]", NL>>
L_a2 == <<"[", "a", "]", "]", NL>>
L_a_bc == <<"[", "a", "]", ":", "b", ",", "c", NL>>
L_b_c == <<"[", "b", "]", ":", "c", NL>>
L_a_b == <<"[", "a", "]", ":", "b", NL>>
L_a_a == <<"[", "a", "]", ":", "a", NL>>
L_a_af == <<"[", "a", "]", ":", "a", "=", "f", NL>>
L_b_af == <<"[", "b", "]", " ", ":", " ", "a", " ", "=", " ", "f", NL>>
L_bsp == <<"[", "b", " ", "c", "]", NL>>
K_e == <<"k", "=", NL>>
K_1 == <<"k", "=", "1", NL>>
K_2 == <<"k", "=", "2", NL>>
K_arr == <<"k", " ", "=", " ", "1", ",", "2", NL>>
K_str == <<"k", "=", QUOTE, "x", " ", "y", QUOTE, NL>>
K_q == <<"k", "=", QUOTE, "a", BS, QUOTE, "b", ",", "c", QUOTE, NL>>
K_qq == <<"k", "=", QUOTE, BS, QUOTE, "x", BS, QUOTE, ",", "y", QUOTE, NL>>
K_sp == <<"k", " ", "j", "=", "1", NL>>
L_sp == <<"[", " ", "b", "]", NL>>
K_1n == <<"k", "=", "1">>
L_a_bn == <<"[", "a", "]", ":", "b">>
L_a_fn == <<"[", "a", "]", "=", "f">>
K_1c == <<"k", "=", "1", ";", "c", NL>>
K_kcj == <<"k", "|", "c", "|", "j", "=", "1", NL>>
K_vc == <<"k", "=", "1", "|", "c", "|", NL>>
L_bc == <<"[", "b", "|", "c", "|", "]", NL>>
K_bs == <<"k", BS, NL>>
K_eqeq == <<"k", "=", "1", "=", "2", NL>>
J_3 == <<"j", "=", "3", NL>>
C_line == <<";", "c", NL>>
K_123 == <<"k", "=", "1", ",", "2", ",", "3", NL>>
K_4 == <<"k", "=", "1", "0", ",", "2", ",", "3", ",", "4", NL>>
J_x == <<"j", "=", "x", ",", "1", NL>>
I_f == <<"#">> \o Include \o <<" ", "<", "f", ">", NL>>
I_g == <<"#">> \o Include \o <<" ", "<", "g", ">", NL>>

Families == {"inh", "dup", "err", "inc", "rt", "arr", "deep", "str",
             "sp", "eof", "cmt", "set", "blk"}

\* the lines a file of family fm may consist of, for a load at depth dp
Chunks(fm, dp) ==
  CASE fm = "inh" -> {L_b, L_c, L_a_bc, K_e, K_1, K_2}
    [] fm = "dup" -> {L_a, L_a2, L_a_af, K_1, K_2, J_3}
    [] fm = "err" -> {L_a, K_1, K_bs, L_bsp, K_eqeq, J_3}
    [] fm = "inc" -> IF dp = 1
                     THEN {L_a, K_1, I_f, I_g}
                     ELSE {L_x, L_a, K_2, K_bs}
                          \cup (IF dp < MaxDepth THEN {I_f, I_g} ELSE {})
    [] fm = "rt" -> {L_a, L_b_af, K_arr, K_str, C_line}
    [] fm = "arr" -> {L_a, K_e, K_1, K_arr, K_123, K_4, J_x}
    [] fm = "deep" -> {L_c, K_1, L_b_c, L_a_b, L_a_a}
    [] fm = "str" -> {L_a, K_q, K_qq, K_arr, K_1}
    [] fm = "sp" -> {L_a, K_sp, L_sp, L_bsp, K_arr}
    [] fm = "eof" -> {L_a, L_b, K_1n, L_a_bn, L_a_fn}
    [] fm = "cmt" -> {L_a, K_1c, K_2, C_line}
    [] fm = "set" -> {L_c, K_1, L_b_c}
    [] fm = "blk" -> {L_a, K_kcj, K_vc, L_bc, K_2}

\* the queries the program makes after loading a file of family fm
Calls(fm) ==
  CASE fm = "arr" -> {"getString", "getArray", "getVec2", "getVec3", "getVec4"}
    [] fm = "dup" -> {"getString", "hasAttribute", "isInheritedFrom",
                      "hasInheritances", "hasKey", "hasSection"}
    [] fm = "set" -> {"set"}
    [] OTHER -> {"getString"}

Depth == Len(stack)
Top == stack[Len(stack)]

\* what the stream of frame f can deliver next
Inputs(f) ==
  IF f.rest # <<>> THEN {f.rest}
  ELSE IF f.more > 0 THEN Chunks(fam, Depth) ELSE {}

SetTop(f) == [stack EXCEPT ![Len(stack)] = f]

(* ----------------------------- actions --------------------------------- *)
NoCall == [op |-> "none", section |-> <<>>, key |-> <<>>,
           default_value |-> <<>>, ret |-> <<>>]

Init ==
  /\ section_data = <<>>
  /\ current_file = <<>>
  /\ stack = <<>>
  /\ diag = <<>>
  /\ phase = "new"
  /\ fam \in Families
  /\ last = NoCall
  /\ dupKeys = {}
  /\ saved = <<>>

\* the key a "Key already exist" diagnostic is about, with the value it held
DupKeyOf(f, d, msgs) ==
  IF \E i \in 1..Len(msgs) : msgs[i] = "Key already exist"
  THEN {[s |-> f.section_ptr[1], k |-> f.key,
         v |-> d[f.section_ptr[1]].values[f.key]]}
  ELSE {}

\* CFGParser(file_path) / load(file_path): entry of the top-level load
Load(path) ==
  /\ phase = "new"
  /\ current_file' = path
  /\ IF path \in Files
     THEN /\ stack' = <<NewFrame(MaxLines, section_data)>>
          /\ diag' = <<>>
          /\ phase' = "loading"
     ELSE /\ stack' = stack
          /\ diag' = <<"Cannot open file">>
          /\ phase' = "ready"
  /\ UNCHANGED <<section_data, fam, last, dupKeys, saved>>

\* one iteration of the while loop on a character of the file
ReadChar ==
  /\ phase = "loading"
  /\ Top.pc = "loop"
  /\ ~Top.eof
  /\ \E text \in Inputs(Top) :
       LET f == Top
           c == Head(text)
           tl == Tail(text)
           esc == c = BS /\ f.parse_action = "STRING_VALUE"
           la == IF tl = <<>> THEN <<>> ELSE <<tl[1]>>
           r == Iteration(f, section_data, c, la)
           g == Ghost(f, c, r)
       IN  /\ ~(c = ">" /\ f.parse_action = "INCLUDE")
           /\ stack' = SetTop([g EXCEPT
                  !.g_text = LineText(f, <<c>> \o (IF esc THEN la ELSE <<>>)),
                  !.rest = IF esc /\ tl # <<>> THEN Tail(tl) ELSE tl,
                  !.more = IF f.rest = <<>> THEN @ - 1 ELSE @,
                  !.eof = esc /\ tl = <<>>])
           /\ section_data' = r.d
           /\ diag' = r.msgs
           /\ dupKeys' = dupKeys \cup DupKeyOf(f, section_data, r.msgs)
  /\ UNCHANGED <<current_file, phase, fam, last, saved>>

\* mutant: _current_file is not restored after the failed load()
IncludeFileFailed_noRestore(g, file, path) ==
  [f |-> [g EXCEPT !.pp_second = <<>>, !.character_pos = @ + 1],
   cur |-> path,
   msgs |-> <<"Cannot open file">>]

\* IncludeFile when load() cannot open `path`: load() has set _current_file
\* and reported, IncludeFile restores _current_file from its local `file`,
\* the '>' case clears the argument and the loop counts the character
IncludeFileFailed(g, file, path) ==
  [f |-> [g EXCEPT !.pp_second = <<>>, !.character_pos = @ + 1],
   cur |-> file,
   msgs |-> <<"Cannot open file">>]

\* '>' in INCLUDE: IncludeFile(preprocessor_pair.second) enters load()
IncludeFile ==
  /\ phase = "loading"
  /\ Top.pc = "loop"
  /\ ~Top.eof
  /\ \E text \in Inputs(Top) :
       LET f == Top
           path == base_path \o f.pp_second
           g == [f EXCEPT !.rest = Tail(text),
                          !.g_text = LineText(f, <<">">>),
                          !.more = IF f.rest = <<>> THEN @ - 1 ELSE @]
       IN  /\ Head(text) = ">" /\ f.parse_action = "INCLUDE"
           /\ IF path \in Files
              THEN /\ Depth < MaxDepth
                   /\ stack' = Append(SetTop([g EXCEPT !.pc = "include",
                                                       !.file = current_file]),
                                      NewFrame(MaxIncLines, section_data))
                   /\ current_file' = path
                   /\ diag' = <<>>
              ELSE LET x == IncludeFileFailed(g, current_file, path)
                   IN  /\ stack' = SetTop(x.f)
                       /\ current_file' = x.cur
                       /\ diag' = x.msgs
  /\ UNCHANGED <<section_data, phase, fam, last, dupKeys, saved>>

\* mutant: the parse state is shared with the nested load, which leaves it
\* at NEW_LINE
IncludeReturn_reset(o) ==
  [o EXCEPT !.pc = "loop", !.pp_second = <<>>, !.character_pos = @ + 1,
            !.parse_action = "NEW_LINE"]

\* mutant: the nested load leaves the caller's stream a line further back
IncludeReturn_rewind(o) ==
  [o EXCEPT !.pc = "loop", !.pp_second = <<>>, !.character_pos = @ + 1,
            !.more = @ + 1]

\* the caller's frame when the nested load() has returned to IncludeFile
IncludeReturn(o) ==
  [o EXCEPT !.pc = "loop", !.pp_second = <<>>, !.character_pos = @ + 1]

\* mutant: the loop ends at end of input without the implicit newline
EofIteration_noFlush(f, d) == R(f, d, <<>>)

\* the last pass of the loop: get() gives -1, which is read as a newline;
\* no pass is left when the get() of an escape already met the end
EofIteration(f, d) ==
  IF f.eof THEN R(f, d, <<>>) ELSE Iteration(f, d, NL, <<>>)

\* end of input: the implicit newline, file.close(), return from load();
\* `last` records the top-level call that returned, with the state and the
\* key and value buffers it stood in when the end of input was met
Eof ==
  /\ phase = "loading"
  /\ Top.pc = "loop"
  /\ Top.rest = <<>>
  /\ LET f == Top
         r == EofIteration(f, section_data)
     IN  /\ section_data' = r.d
         /\ diag' = r.msgs
         /\ IF Depth = 1
            THEN /\ stack' = <<>>
                 /\ phase' = "ready"
                 /\ current_file' = current_file
                 /\ last' = [NoCall EXCEPT !.op = "load",
                                           !.section = f.section_ptr,
                                           !.key = f.key,
                                           !.default_value = f.value,
                                           !.ret = f.parse_action]
            ELSE /\ stack' = [SubSeq(stack, 1, Depth - 1) EXCEPT
                                ![Depth - 1] = IncludeReturn(@)]
                 /\ phase' = phase
                 /\ current_file' = stack[Depth - 1].file
                 /\ last' = last
  /\ UNCHANGED <<fam, dupKeys, saved>>

(* --------------------------- Value Resolver ---------------------------- *)
RECURSIVE InheritanceScan(_, _, _, _)
\* the for loop of getValueFromInheritance from index i on
InheritanceScan(d, inh, key, i) ==
  IF i > Len(inh) THEN <<>>
  ELSE IF inh[i] \in DOMAIN d /\ key \in DOMAIN d[inh[i]].values
       THEN d[inh[i]].values[key]
       ELSE InheritanceScan(d, inh, key, i + 1)

\* mutant: the inheritances of the inherited sections are consulted too
getValueFromInheritance_twoLevels(d, section_rec, key) ==
  LET inh == section_rec.inheritances
      first == InheritanceScan(d, inh, key, 1)
      second == [i \in 1..Len(inh) |->
                   IF inh[i] \in DOMAIN d
                   THEN InheritanceScan(d, d[inh[i]].inheritances, key, 1)
                   ELSE <<>>]
      hits == {i \in 1..Len(inh) : second[i] # <<>>}
  IN  IF first # <<>> \/ hits = {} THEN first
      ELSE second[CHOOSE i \in hits : \A j \in hits : i <= j]

getValueFromInheritance(d, section_rec, key) ==
  InheritanceScan(d, section_rec.inheritances, key, 1)

\* mutant: the inherited sections are consulted before the own values
getString_inheritedFirst(d, section, key, default_value) ==
  IF section \in DOMAIN d
  THEN LET value == getValueFromInheritance(d, d[section], key)
       IN  IF value # <<>> THEN value
           ELSE IF key \in DOMAIN d[section].values
                THEN d[section].values[key]
                ELSE default_value
  ELSE default_value

getString(d, section, key, default_value) ==
  IF section \in DOMAIN d
  THEN IF key \in DOMAIN d[section].values
       THEN d[section].values[key]
       ELSE LET value == getValueFromInheritance(d, d[section], key)
            IN  IF value # <<>> THEN value ELSE default_value
  ELSE default_value

hasSection(d, section) == section \in DOMAIN d

hasKey(d, section, key) ==
  IF section \in DOMAIN d THEN key \in DOMAIN d[section].values ELSE FALSE

hasAttribute(d, section, attribute) ==
  IF section \in DOMAIN d
  THEN \E i \in 1..Len(d[section].attributes) :
         d[section].attributes[i] = attribute
  ELSE FALSE

isInheritedFrom(d, section, base_section) ==
  IF section \in DOMAIN d
  THEN \E i \in 1..Len(d[section].inheritances) :
         d[section].inheritances[i] = base_section
  ELSE FALSE

hasInheritances(d, section) ==
  IF section \in DOMAIN d THEN d[section].inheritances # <<>> ELSE FALSE

\* the else branch of hasKey and hasInheritances
SectionNotExist(d, section) ==
  IF section \in DOMAIN d THEN <<>> ELSE <<"Section is not exist">>

\* arguments the queries are called with
QSections == (DOMAIN section_data) \cup {<<"z">>}
QKeys == {<<"k">>, <<"j">>}
QDefaults == {<<>>, <<"d">>}

GetString ==
  /\ phase = "ready"
  /\ "getString" \in Calls(fam)
  /\ \E s \in QSections, k \in QKeys, dv \in QDefaults :
       last' = [op |-> "getString", section |-> s, key |-> k,
                default_value |-> dv,
                ret |-> getString(section_data, s, k, dv)]
  /\ diag' = <<>>
  /\ UNCHANGED <<section_data, current_file, stack, phase, fam, dupKeys,
                 saved>>

(* ----------------------- typed accessors ------------------------------- *)
Digits == {"0", "1", "2", "3", "4", "5", "6", "7", "8", "9"}
DigitVal ==
  "0" :> 0 @@ "1" :> 1 @@ "2" :> 2 @@ "3" :> 3 @@ "4" :> 4 @@
  "5" :> 5 @@ "6" :> 6 @@ "7" :> 7 @@ "8" :> 8 @@ "9" :> 9

RECURSIVE SkipSpace(_)
\* std::stoi skips leading whitespace
SkipSpace(str) ==
  IF str # <<>> /\ str[1] \in {" ", TAB, NL} THEN SkipSpace(Tail(str))
  ELSE str

RECURSIVE DigitRun(_, _)
\* the value of the longest run of digits str starts with, acc so far
DigitRun(str, acc) ==
  IF str # <<>> /\ str[1] \in Digits
  THEN DigitRun(Tail(str), 10 * acc + DigitVal[str[1]])
  ELSE acc

\* std::stoi: whitespace, an optional sign, digits; throws std::invalid_argument
\* when no digit follows (values stay far inside the range of int here)
stoi(str) ==
  LET t == SkipSpace(str)
      neg == t # <<>> /\ t[1] = "-"
      u == IF t # <<>> /\ t[1] \in {"+", "-"} THEN Tail(t) ELSE t
  IN  IF u # <<>> /\ u[1] \in Digits
      THEN [thrown |-> FALSE,
            val |-> IF neg THEN 0 - DigitRun(u, 0) ELSE DigitRun(u, 0)]
      ELSE [thrown |-> TRUE, val |-> 0]

\* makeValueFromString<int>
makeValueFromString(string_value) == stoi(string_value)

RECURSIVE ArrayLoop(_, _, _, _)
\* the range-for of getArray from index i on, then the push of the last
\* element; an exception of makeValueFromString leaves the function
ArrayLoop(str, i, result, num_str) ==
  IF i > Len(str)
  THEN LET v == makeValueFromString(num_str)
       IN  IF v.thrown THEN [kind |-> "throw", val |-> <<>>]
           ELSE [kind |-> "value", val |-> Append(result, v.val)]
  ELSE IF str[i] = ","
       THEN LET v == makeValueFromString(num_str)
            IN  IF v.thrown THEN [kind |-> "throw", val |-> <<>>]
                ELSE ArrayLoop(str, i + 1, Append(result, v.val), <<>>)
       ELSE ArrayLoop(str, i + 1, result, Append(num_str, str[i]))

\* what a read of a destroyed std::string may give besides its old content
GarbageStrings == {<<"7">>}

\* the split of a non-empty str, or the empty vector
ArrayOf(str) ==
  IF str # <<>> THEN ArrayLoop(str, 1, <<>>, <<>>)
  ELSE [kind |-> "value", val |-> <<>>]

\* getString returns a reference to one of the stored values
Resolved(d, section, key) ==
  /\ section \in DOMAIN d
  /\ \/ key \in DOMAIN d[section].values
     \/ getValueFromInheritance(d, d[section], key) # <<>>

\* getArray<int>: the outcomes the call can have.  getString is called with
\* its default_value argument defaulted, a temporary that is destroyed at the
\* end of the declaration of str; when getString returns default_value, str
\* dangles and reading it is undefined behaviour: the old (empty) content,
\* any other content, or the program is stopped.
getArray(d, section, key) ==
  IF Resolved(d, section, key)
  THEN {ArrayOf(getString(d, section, key, <<>>))}
  ELSE {ArrayOf(str) : str \in {<<>>} \cup GarbageStrings}
       \cup {[kind |-> "crash", val |-> <<>>]}

\* what a read of vec[i] past the end of the vector may give
GarbageInts == {0, 77}

\* the body of getVecN on vector vec: vec[i] with i >= vec.size() is
\* undefined behaviour, the read gives any value or the program is stopped
VecOf(vec, default_value, N) ==
  IF vec.kind # "value"
  THEN {[kind |-> vec.kind, val |-> <<>>, msgs |-> <<>>]}
  ELSE IF vec.val # <<>>
       THEN IF Len(vec.val) >= N
            THEN {[kind |-> "value", val |-> SubSeq(vec.val, 1, N),
                   msgs |-> <<>>]}
            ELSE {[kind |-> "value", val |-> vec.val \o g, msgs |-> <<>>] :
                    g \in [1..(N - Len(vec.val)) -> GarbageInts]}
                 \cup {[kind |-> "crash", val |-> <<>>, msgs |-> <<>>]}
       ELSE {[kind |-> "value", val |-> default_value,
              msgs |-> <<"Cannot find">>]}

\* getVec2 / getVec3 / getVec4 <int> with N components: the outcomes the call
\* can have
getVecN(d, section, key, default_value, N) ==
  UNION {VecOf(vec, default_value, N) : vec \in getArray(d, section, key)}

getVec2(d, section, key, default_value) ==
  getVecN(d, section, key, default_value, 2)

getVec3(d, section, key, default_value) ==
  getVecN(d, section, key, default_value, 3)

getVec4(d, section, key, default_value) ==
  getVecN(d, section, key, default_value, 4)

\* the default a getVecN call is given
QVecDefault(N) == [i \in 1..N |-> 9]

\* attribute and base-section names the queries are called with
QNames == {<<"a">>, <<"f">>}

\* a presence query that returned ret and emitted msgs
Presence(op, s, n, ret, msgs) ==
  /\ last' = [op |-> op, section |-> s, key |-> n, default_value |-> <<>>,
              ret |-> ret]
  /\ diag' = msgs
  /\ UNCHANGED <<section_data, current_file, stack, phase, fam, dupKeys,
                 saved>>

HasAttribute ==
  /\ phase = "ready"
  /\ "hasAttribute" \in Calls(fam)
  /\ \E s \in QSections, n \in QNames :
       Presence("hasAttribute", s, n, hasAttribute(section_data, s, n), <<>>)

IsInheritedFrom ==
  /\ phase = "ready"
  /\ "isInheritedFrom" \in Calls(fam)
  /\ \E s \in QSections, n \in QNames :
       Presence("isInheritedFrom", s, n,
                isInheritedFrom(section_data, s, n), <<>>)

HasInheritances ==
  /\ phase = "ready"
  /\ "hasInheritances" \in Calls(fam)
  /\ \E s \in QSections :
       Presence("hasInheritances", s, <<>>,
                hasInheritances(section_data, s),
                SectionNotExist(section_data, s))

HasKey ==
  /\ phase = "ready"
  /\ "hasKey" \in Calls(fam)
  /\ \E s \in QSections, k \in QKeys :
       Presence("hasKey", s, k, hasKey(section_data, s, k),
                SectionNotExist(section_data, s))

HasSection ==
  /\ phase = "ready"
  /\ "hasSection" \in Calls(fam)
  /\ \E s \in QSections :
       Presence("hasSection", s, <<>>, hasSection(section_data, s), <<>>)

GetArray ==
  /\ phase = "ready"
  /\ "getArray" \in Calls(fam)
  /\ \E s \in QSections, k \in QKeys :
       \E o \in getArray(section_data, s, k) :
         last' = [op |-> "getArray", section |-> s, key |-> k,
                  default_value |-> <<>>, ret |-> o]
  /\ diag' = <<>>
  /\ UNCHANGED <<section_data, current_file, stack, phase, fam, dupKeys,
                 saved>>

\* a call of getVecN whose outcomes are outs
VecCall(op, N, s, k, outs) ==
  \E o \in outs :
    /\ last' = [op |-> op, section |-> s, key |-> k,
                default_value |-> QVecDefault(N),
                ret |-> [kind |-> o.kind, val |-> o.val]]
    /\ diag' = o.msgs

GetVec2 ==
  /\ phase = "ready"
  /\ "getVec2" \in Calls(fam)
  /\ \E s \in QSections, k \in QKeys :
       VecCall("getVec2", 2, s, k,
               getVec2(section_data, s, k, QVecDefault(2)))
  /\ UNCHANGED <<section_data, current_file, stack, phase, fam, dupKeys,
                 saved>>

GetVec3 ==
  /\ phase = "ready"
  /\ "getVec3" \in Calls(fam)
  /\ \E s \in QSections, k \in QKeys :
       VecCall("getVec3", 3, s, k,
               getVec3(section_data, s, k, QVecDefault(3)))
  /\ UNCHANGED <<section_data, current_file, stack, phase, fam, dupKeys,
                 saved>>

GetVec4 ==
  /\ phase = "ready"
  /\ "getVec4" \in Calls(fam)
  /\ \E s \in QSections, k \in QKeys :
       VecCall("getVec4", 4, s, k,
               getVec4(section_data, s, k, QVecDefault(4)))
  /\ UNCHANGED <<section_data, current_file, stack, phase, fam, dupKeys,
                 saved>>

(* --------------------------------- set --------------------------------- *)
DigitChar == <<"0", "1", "2", "3", "4", "5", "6", "7", "8", "9">>

RECURSIVE DecimalOf(_)
\* the decimal digits of n >= 0, most significant first
DecimalOf(n) ==
  IF n < 10 THEN <<DigitChar[n + 1]>>
  ELSE Append(DecimalOf(n \div 10), DigitChar[(n % 10) + 1])

\* std::to_string(int)
to_string(value) ==
  IF value < 0 THEN <<"-">> \o DecimalOf(0 - value) ELSE DecimalOf(value)

\* mutant: a missing key is created in an existing section
set_createKey(d, section, key, value) ==
  IF section \in DOMAIN d
  THEN [d |-> [d EXCEPT ![section].values = MapPut(@, key, to_string(value))],
        msgs |-> <<>>]
  ELSE [d |-> d, msgs |-> <<"Section is not exist">>]

\* set<int>
set(d, section, key, value) ==
  IF section \in DOMAIN d
  THEN IF key \in DOMAIN d[section].values
       THEN [d |-> [d EXCEPT ![section].values =
                               MapPut(@, key, to_string(value))],
             msgs |-> <<>>]
       ELSE [d |-> d, msgs |-> <<"Key is not exist">>]
  ELSE [d |-> d, msgs |-> <<"Section is not exist">>]

\* the values set is called with
QValues == {-3, 12}

Set ==
  /\ phase = "ready"
  /\ "set" \in Calls(fam)
  /\ \E s \in QSections, k \in QKeys, v \in QValues :
       LET r == set(section_data, s, k, v)
       IN  /\ section_data' = r.d
           /\ diag' = r.msgs
           /\ last' = [op |-> "set", section |-> s, key |-> k,
                       default_value |-> v, ret |-> <<>>]
  /\ UNCHANGED <<current_file, stack, phase, fam, dupKeys, saved>>

(* -------------------------------- save --------------------------------- *)
\* the orders in which a range-for may enumerate an unordered_map with keys S
Perms(S) ==
  {p \in [1..Cardinality(S) -> S] :
     \A i, j \in 1..Cardinality(S) : p[i] = p[j] => i = j}

RECURSIVE JoinList(_, _)
\* elements written with ", " between them, from index i on
JoinList(xs, i) ==
  IF i > Len(xs) THEN <<>>
  ELSE (IF i > 1 THEN <<",", " ">> ELSE <<>>) \o xs[i] \o JoinList(xs, i + 1)

RECURSIVE ValueLines(_, _, _)
ValueLines(vals, ks, i) ==
  IF i > Len(ks) THEN <<>>
  ELSE ks[i] \o <<" ", "=", " ">> \o vals[ks[i]] \o <<NL>>
       \o ValueLines(vals, ks, i + 1)

\* what save() writes for one section; ks: its keys in enumeration order
SectionText(name, sec, ks) ==
  <<"[">> \o name \o <<"]">>
  \o (IF sec.inheritances # <<>>
      THEN <<" ", ":", " ">> \o JoinList(sec.inheritances, 1) ELSE <<>>)
  \o (IF sec.attributes # <<>>
      THEN <<" ", "=", " ">> \o JoinList(sec.attributes, 1) ELSE <<>>)
  \o <<NL>> \o ValueLines(sec.values, ks, 1) \o <<NL>>

RECURSIVE SaveText(_, _, _, _)
\* the file save() writes; so: section order, ko[s]: key order of section s
SaveText(d, so, ko, i) ==
  IF i > Len(so) THEN <<>>
  ELSE SectionText(so[i], d[so[i]],
                   SelectSeq(ko[so[i]],
                             LAMBDA k : k \in DOMAIN d[so[i]].values))
       \o SaveText(d, so, ko, i + 1)

AllKeys(d) == UNION {DOMAIN d[s].values : s \in DOMAIN d}

Save ==
  /\ phase = "ready"
  /\ saved = <<>>
  /\ \E so \in Perms(DOMAIN section_data) :
       \E ko \in [DOMAIN section_data -> Perms(AllKeys(section_data))] :
         saved' = <<SaveText(section_data, so, ko, 1)>>
  /\ last' = [NoCall EXCEPT !.op = "save"]
  /\ diag' = <<>>
  /\ UNCHANGED <<section_data, current_file, stack, phase, fam, dupKeys>>

RECURSIVE RunLoop(_, _, _)
\* the while loop of load() run to completion on a file with bytes `text`
\* that holds no include directive
RunLoop(f, d, text) ==
  IF text = <<>> THEN Iteration(f, d, NL, <<>>).d
  ELSE LET c == Head(text)
           tl == Tail(text)
           esc == c = BS /\ f.parse_action = "STRING_VALUE"
           la == IF tl = <<>> THEN <<>> ELSE <<tl[1]>>
           r == Iteration(f, d, c, la)
       IN  \* r.f.line >= 1 always; reading it evaluates r before the call
           IF (esc /\ tl = <<>>) \/ r.f.line < 1 THEN r.d
           ELSE RunLoop(r.f, r.d, IF esc THEN Tail(tl) ELSE tl)

\* load(path) in a freshly constructed parser, path holding `text`
LoadFresh(text) == RunLoop(NewFrame(0, <<>>), <<>>, text)

Next ==
  \/ \E path \in {MainPath, MissingPath} : Load(path)
  \/ ReadChar
  \/ IncludeFile
  \/ Eof
  \/ GetString
  \/ HasAttribute
  \/ IsInheritedFrom
  \/ HasInheritances
  \/ HasKey
  \/ HasSection
  \/ GetArray
  \/ GetVec2
  \/ GetVec3
  \/ GetVec4
  \/ Set
  \/ Save

Spec == Init /\ [][Next]_vars

(* ------------------------------ claims --------------------------------- *)
\* indexes of the listed bases of section s that define key k
Definers(s, k) ==
  {i \in 1..Len(section_data[s].inheritances) :
     hasKey(section_data, section_data[s].inheritances[i], k)}

Min(S) == CHOOSE x \in S : \A y \in S : x <= y

\* C1: getString on a section without an own entry for the key returns the
\* value held by the first listed base that defines the key, whatever that
\* value is, and the default only when no listed base defines the key.
C1_FirstBaseWins ==
  (/\ last.op = "getString"
   /\ hasSection(section_data, last.section)
   /\ ~hasKey(section_data, last.section, last.key))
  => last.ret =
       IF Definers(last.section, last.key) = {} THEN last.default_value
       ELSE section_data[section_data[last.section].inheritances[
                           Min(Definers(last.section, last.key))]
                        ].values[last.key]

\* C2: getString on a section with an own entry for the key returns the own
\* raw value, whatever the listed bases define and whatever the default is.
C2_OwnShadowsInherited ==
  (/\ last.op = "getString"
   /\ hasKey(section_data, last.section, last.key))
  => last.ret = section_data[last.section].values[last.key]

\* a query of a key the section holds, a listed base holds with another
\* value, and a default that differs from both
C2_Witness ==
  /\ last.op = "getString"
  /\ hasKey(section_data, last.section, last.key)
  /\ last.default_value # <<>>
  /\ \E i \in Definers(last.section, last.key) :
       LET b == section_data[last.section].inheritances[i]
       IN  /\ section_data[b].values[last.key] # <<>>
           /\ section_data[b].values[last.key]
                # section_data[last.section].values[last.key]

\* C3: after load, a key that was assigned again in the same section (the
\* second assignment being diagnosed) still holds the value of its first
\* assignment.
C3_FirstWriteWins ==
  phase = "ready" =>
    \A r \in dupKeys : section_data[r.s].values[r.k] = r.v

\* the top frame reads character c in this step
Reading(c) ==
  /\ phase = "loading"
  /\ Top.pc = "loop"
  /\ Top.rest # <<>>
  /\ Head(Top.rest) = c

\* C4: a `]` that closes a section name already in the Document is
\* diagnosed and changes nothing, and as long as that later header is the
\* current one of its load, no step changes the Section stored under the
\* name: hasKey for it gives what it gave before.
C4_DuplicateSectionKept ==
  [][/\ (Reading("]") /\ Top.parse_action = "SECTION"
           /\ hasSection(section_data, Top.section))
        => (diag' = <<"Section already exist">>
              /\ section_data' = section_data)
     /\ \A i \in 1..Len(stack) :
          stack[i].g_duphdr # <<>> =>
            LET N == stack[i].g_duphdr[1]
            IN  /\ section_data'[N] = section_data[N]
                /\ \A k \in QKeys :
                     hasKey(section_data', N, k) = hasKey(section_data, N, k)
    ]_vars

\* the entry j = 3 has just been read under a second [a] header, which also
\* named an inheritance and an attribute, [a] holding k from its first
\* declaration
C4_Witness ==
  /\ phase = "loading"
  /\ Top.g_duphdr = << <<"a">> >>
  /\ Top.g_entry = << <<"j">>, <<"3">> >>
  /\ Top.inheritance # <<>>
  /\ Top.attribute # <<>>
  /\ hasKey(section_data, <<"a">>, <<"k">>)
  /\ ~hasKey(section_data, <<"a">>, <<"j">>)

\* the inheritance buffer of the top frame is flushed by this step
Flushing ==
  /\ phase = "loading"
  /\ Top.pc = "loop"
  /\ Top.parse_action = "INHERITANCE"
  /\ Top.inheritance # <<>>
  /\ Top.section_ptr # <<>>
  /\ \/ Top.rest # <<>> /\ Head(Top.rest) \in {",", "=", NL}
     \/ Top.rest = <<>> /\ Len(stack') < Len(stack)

\* C5: every name in an inheritances list names a section of the Document,
\* in every state of a parse; a flushed inheritance name that names no
\* section at that moment is not stored and is diagnosed.
C5_InheritancesExist ==
  /\ [](\A s \in DOMAIN section_data :
          \A i \in 1..Len(section_data[s].inheritances) :
            hasSection(section_data, section_data[s].inheritances[i]))
  /\ [][(Flushing /\ ~hasSection(section_data, Top.inheritance))
          => (section_data' = section_data
                /\ diag' = <<"Inherited section is not exist">>)]_vars

\* [a] named the base c before any [c] was declared; [c] is declared now
\* and is no base of [a]
C5_Witness ==
  /\ hasSection(section_data, <<"a">>)
  /\ hasSection(section_data, <<"c">>)
  /\ hasSection(section_data, <<"b">>)
  /\ section_data[<<"a">>].inheritances = << <<"b">> >>
  /\ section_data[<<"c">>].inheritances = <<>>
  /\ phase = "loading"
  /\ Top.section = <<"c">>
  /\ Top.section_ptr = << <<"c">> >>

\* the locals of a load that stands at the start of a line with the
\* buffers, state and section context sf
Resume(sf, d) ==
  [NewFrame(0, d) EXCEPT
     !.section = sf.section, !.inheritance = sf.inheritance,
     !.attribute = sf.attribute, !.key = sf.key, !.value = sf.value,
     !.pp_first = sf.pp_first, !.pp_second = sf.pp_second,
     !.section_ptr = sf.section_ptr, !.parse_action = sf.parse_action,
     !.ignore_current_spaces = sf.ignore_current_spaces]

WellFormedLines == {K_1, K_2, J_3, L_c}

\* C6: the newline that ends a line on which the parser went to Error
\* returns it to NewLine, the Document is what it was at the start of that
\* line, and every well-formed line that follows gives the Document it
\* gives when it follows the line before the malformed one.
C6_MalformedLineDropped ==
  [][(/\ phase = "loading"
      /\ Top.pc = "loop"
      /\ Top.parse_action = "ERROR"
      /\ Len(stack') = Len(stack)
      /\ stack'[Depth].line = Top.line + 1)
     => /\ stack'[Depth].parse_action = "NEW_LINE"
        /\ section_data' = Top.g_line.d
        /\ \A L \in WellFormedLines :
             RunLoop(Resume(Strip(stack'[Depth]), section_data'),
                     section_data', L)
               = RunLoop(Resume(Top.g_line.f, Top.g_line.d), Top.g_line.d, L)
    ]_vars

\* what the claim compares of an including load across the nested load
OuterContext(f) ==
  [parse_action |-> f.parse_action, line |-> f.line,
   section |-> f.section, inheritance |-> f.inheritance,
   attribute |-> f.attribute, key |-> f.key, value |-> f.value,
   pp_first |-> f.pp_first, section_ptr |-> f.section_ptr,
   ignore_current_spaces |-> f.ignore_current_spaces]

\* C7: the frame of an including load is untouched while the nested load
\* runs, and when the nested load returns the including load has the
\* state, line, buffers and section context it had at the `>`, has counted
\* the `>` and reads on with the character after it.
C7_IncludePreservesOuter ==
  [][/\ \A i \in 1..(Len(stack) - 1) :
          /\ i < Len(stack') => stack'[i] = stack[i]
          /\ i = Len(stack') =>
               /\ OuterContext(stack'[i]) = OuterContext(stack[i])
               /\ stack'[i].rest = stack[i].rest
               /\ stack'[i].character_pos = stack[i].character_pos + 1
               /\ stack'[i].pc = "loop"
               /\ current_file' = stack[i].file
     /\ (Len(stack) >= 1 /\ Len(stack') = Len(stack) + 1) =>
          /\ Reading(">")
          /\ OuterContext(stack'[Depth]) = OuterContext(Top)
          /\ stack'[Depth].rest = Tail(Top.rest)
          /\ stack'[Depth].character_pos = Top.character_pos
          /\ stack'[Depth].pp_second = Top.pp_second
          /\ stack'[Depth].file = current_file
    ]_vars

\* the top-level load has just got back from an included file that
\* declared [x] and ran into a diagnosed end of input; it has a current
\* section of its own
C7_Witness ==
  /\ phase = "loading"
  /\ Depth = 1
  /\ Top.parse_action = "INCLUDE"
  /\ Top.rest = <<NL>>
  /\ Top.pp_second = <<>>
  /\ Top.section_ptr = << <<"a">> >>
  /\ Top.line > 1
  /\ diag # <<"Cannot open file">>
  /\ hasSection(section_data, <<"x">>)
  /\ current_file = MainPath

\* C8: a well-formed header in an included file whose name is not in the
\* Document puts the section in the Document, no section ever leaves the
\* Document, and no step of a nested load changes a section that was in
\* the Document when that load began.
C8_IncludeSharesDocument ==
  [][/\ (Depth >= 2 /\ Reading("]") /\ Top.parse_action = "SECTION"
           /\ ~hasSection(section_data, Top.section))
        => hasSection(section_data', Top.section)
     /\ \A X \in DOMAIN section_data : hasSection(section_data', X)
     /\ Depth >= 2 =>
          \A X \in DOMAIN Top.g_base : section_data'[X] = section_data[X]
    ]_vars

\* after load: [x] of the included file, with its k, is in the Document
\* next to [a] of the including file, which holds the k = 1 of that file
C8_Witness ==
  /\ phase = "ready"
  /\ fam = "inc"
  /\ hasSection(section_data, <<"x">>)
  /\ hasKey(section_data, <<"x">>, <<"k">>)
  /\ hasSection(section_data, <<"a">>)
  /\ DOMAIN section_data[<<"a">>].values = {<<"k">>}
  /\ section_data[<<"a">>].values[<<"k">>] = <<"1">>

\* C9: a load that cannot open its file emits exactly one diagnostic and
\* leaves the Document unchanged; if it was an include, the including
\* load keeps its state, buffers, section context and current-file name
\* and goes on with the character after the `>`.
C9_OpenFailureIsNoOp ==
  [][/\ (phase = "new" /\ phase' # "new" /\ current_file' \notin Files)
        => (diag' = <<"Cannot open file">>
              /\ section_data' = section_data
              /\ stack' = stack
              /\ phase' = "ready")
     /\ (Reading(">") /\ Top.parse_action = "INCLUDE"
           /\ (base_path \o Top.pp_second) \notin Files)
        => (/\ diag' = <<"Cannot open file">>
            /\ section_data' = section_data
            /\ current_file' = current_file
            /\ Len(stack') = Len(stack)
            /\ \A i \in 1..(Depth - 1) : stack'[i] = stack[i]
            /\ OuterContext(stack'[Depth]) = OuterContext(Top)
            /\ stack'[Depth].rest = Tail(Top.rest)
            /\ stack'[Depth].character_pos = Top.character_pos + 1
            /\ stack'[Depth].pc = "loop")
    ]_vars

\* an include directive naming a file that cannot be opened has just been
\* handled inside the body of [a], which holds k
C9_Witness ==
  /\ phase = "loading"
  /\ diag = <<"Cannot open file">>
  /\ Top.parse_action = "INCLUDE"
  /\ Top.rest = <<NL>>
  /\ Top.section_ptr = << <<"a">> >>
  /\ hasKey(section_data, <<"a">>, <<"k">>)
  /\ current_file = MainPath

\* C10: the file save() wrote, loaded into an empty parser, gives the
\* Document that was saved, for every enumeration order of save().
C10_RoundTrip ==
  last.op = "save" => LoadFresh(saved[1]) = section_data

\* the number of components a getVecN call returns
VecN(op) == CASE op = "getVec2" -> 2 [] op = "getVec3" -> 3 [] OTHER -> 4

\* the array of the raw value stored for (s, k): absent key, absent section
\* and empty value give the empty array
StoredArray(s, k) == ArrayOf(getString(section_data, s, k, <<>>))

\* C11: getVecN returns the first N elements of getArray when there are at
\* least N, and the default together with a diagnostic whenever there are
\* fewer than N (0 up to N-1), reading no element past the end.  Stated for
\* the keys that resolve to a stored value.
C11_VecUnderflowGivesDefault ==
  (/\ last.op \in {"getVec2", "getVec3", "getVec4"}
   /\ Resolved(section_data, last.section, last.key)
   /\ StoredArray(last.section, last.key).kind = "value")
  => LET arr == StoredArray(last.section, last.key).val
         N == VecN(last.op)
     IN  /\ last.ret.kind = "value"
         /\ IF Len(arr) >= N
            THEN last.ret.val = SubSeq(arr, 1, N) /\ diag = <<>>
            ELSE last.ret.val = last.default_value
                   /\ diag = <<"Cannot find">>

\* positions of the commas of raw value str
Commas(str) == {i \in 1..Len(str) : str[i] = ","}

\* the i-th comma-separated segment of str
Segment(str, i) ==
  LET cut == {0} \cup Commas(str) \cup {Len(str) + 1}
      from == CHOOSE a \in cut : Cardinality({c \in cut : c < a}) = i - 1
      to == CHOOSE b \in cut : Cardinality({c \in cut : c < b}) = i
  IN  SubSeq(str, from + 1, to - 1)

\* the number a non-empty string of digits denotes
DecimalValue(seg) ==
  LET pow[n \in 0..Len(seg)] == IF n = 0 THEN 1 ELSE 10 * pow[n - 1]
      sum[n \in 0..Len(seg)] ==
        IF n = 0 THEN 0
        ELSE sum[n - 1] + DigitVal[seg[n]] * pow[Len(seg) - n]
  IN  sum[Len(seg)]

Numeric(seg) == seg # <<>> /\ \A i \in 1..Len(seg) : seg[i] \in Digits

\* C14: getArray<int> on a resolved raw value of n+1 numeric segments with
\* n commas between them returns the n+1 numbers in order; on an empty
\* resolved value and on an absent key or section it returns the empty
\* sequence.
C14_ArraySplitsInOrder ==
  last.op = "getArray" =>
    LET str == getString(section_data, last.section, last.key, <<>>)
        n == Cardinality(Commas(str))
    IN  /\ str = <<>> => last.ret = [kind |-> "value", val |-> <<>>]
        /\ (str # <<>> /\ \A i \in 1..(n + 1) : Numeric(Segment(str, i)))
             => /\ last.ret.kind = "value"
                /\ Len(last.ret.val) = n + 1
                /\ \A i \in 1..(n + 1) :
                     last.ret.val[i] = DecimalValue(Segment(str, i))

\* the numeric half of C14 taken alone: it holds
C14_NumericPart ==
  last.op = "getArray" =>
    LET str == getString(section_data, last.section, last.key, <<>>)
        n == Cardinality(Commas(str))
    IN  (str # <<>> /\ \A i \in 1..(n + 1) : Numeric(Segment(str, i)))
          => /\ last.ret.kind = "value"
             /\ Len(last.ret.val) = n + 1
             /\ \A i \in 1..(n + 1) :
                  last.ret.val[i] = DecimalValue(Segment(str, i))

\* a step that is a call of one of the queries ops
Query(ops) == phase = "ready" /\ phase' = "ready" /\ last'.op \in ops

\* C12: hasAttribute, hasInheritances, isInheritedFrom and hasKey called with
\* a section that is not in the Document return false and emit the
\* "section not found" diagnostic; hasSection returns false and emits
\* nothing; none of them changes the Document.
C12_MissingSectionDiagnosed ==
  [][/\ Query({"hasAttribute", "hasInheritances", "isInheritedFrom",
               "hasKey", "hasSection"})
       => section_data' = section_data
     /\ (/\ Query({"hasAttribute", "hasInheritances", "isInheritedFrom",
                   "hasKey"})
         /\ last'.section \notin DOMAIN section_data)
       => (last'.ret = FALSE /\ diag' = <<"Section is not exist">>)
     /\ (Query({"hasSection"}) /\ last'.section \notin DOMAIN section_data)
       => (last'.ret = FALSE /\ diag' = <<>>)]_vars

\* C12 without hasAttribute and isInheritedFrom: it holds
C12_DiagnosedQueries ==
  [][/\ Query({"hasAttribute", "hasInheritances", "isInheritedFrom",
               "hasKey", "hasSection"})
       => section_data' = section_data
     /\ (/\ Query({"hasInheritances", "hasKey"})
         /\ last'.section \notin DOMAIN section_data)
       => (last'.ret = FALSE /\ diag' = <<"Section is not exist">>)
     /\ (/\ Query({"hasAttribute", "isInheritedFrom", "hasSection"})
         /\ last'.section \notin DOMAIN section_data)
       => (last'.ret = FALSE /\ diag' = <<>>)]_vars

\* C13: inherited lookup is one level deep: when the section has no own
\* entry for the key and none of the sections it lists as inheritances has
\* an own entry for it, getString returns the default, whatever the
\* inheritances of those sections define; the call returns also when a
\* section inherits from itself.
C13_OneLevelDeep ==
  (/\ last.op = "getString"
   /\ last.section \in DOMAIN section_data
   /\ last.key \notin DOMAIN section_data[last.section].values
   /\ \A i \in 1..Len(section_data[last.section].inheritances) :
        LET b == section_data[last.section].inheritances[i]
        IN  b \in DOMAIN section_data
              => last.key \notin DOMAIN section_data[b].values)
  => last.ret = last.default_value

\* getString("a", "k", "d") was called where a inherits only b, b has no k
\* and inherits c, and c defines k
C13_Witness ==
  /\ last.op = "getString"
  /\ last.section = <<"a">> /\ last.key = <<"k">>
  /\ last.default_value = <<"d">>
  /\ DOMAIN section_data = {<<"a">>, <<"b">>, <<"c">>}
  /\ section_data[<<"a">>].inheritances = <<<<"b">>>>
  /\ <<"k">> \notin DOMAIN section_data[<<"a">>].values
  /\ section_data[<<"b">>].inheritances = <<<<"c">>>>
  /\ <<"k">> \notin DOMAIN section_data[<<"b">>].values
  /\ <<"k">> \in DOMAIN section_data[<<"c">>].values
  /\ section_data[<<"c">>].values[<<"k">>] = <<"1">>
  /\ last.ret = <<"d">>

\* getString was called on a section that lists itself as an inheritance
C13_SelfInheritance ==
  /\ last.op = "getString"
  /\ last.section = <<"a">>
  /\ section_data[<<"a">>].inheritances = <<<<"a">>>>

IsPrefix(p, str) == Len(p) <= Len(str) /\ SubSeq(str, 1, Len(p)) = p

\* the entries whose value is one quoted string with escaped quotes and a
\* literal comma
QuotedLines == {K_q, K_qq}

RECURSIVE Unescape(_)
\* str with every backslash-quote pair replaced by the quote
Unescape(str) ==
  IF str = <<>> THEN <<>>
  ELSE IF Len(str) >= 2 /\ str[1] = BS /\ str[2] = QUOTE
       THEN <<QUOTE>> \o Unescape(SubSeq(str, 3, Len(str)))
       ELSE <<str[1]>> \o Unescape(Tail(str))

\* the text between the delimiting quotes of a quoted entry, unescaped
QuotedBody(ln) ==
  LET qs == {i \in 1..Len(ln) : ln[i] = QUOTE}
      open == CHOOSE i \in qs : \A j \in qs : i <= j
      close == CHOOSE i \in qs : \A j \in qs : j <= i
  IN  Unescape(SubSeq(ln, open + 1, close - 1))

\* the key of an entry line
KeyOf(ln) == SubSeq(ln, 1, (CHOOSE i \in 1..Len(ln) : ln[i] = "=") - 1)

\* C15: while an entry whose value is one quoted string with escaped quotes
\* and a literal comma is read the parser is never in ValueArray, and at the
\* end of the line the key holds one raw value: the text between the
\* delimiting quotes with the escaped quotes unescaped and the comma kept.
C15_QuotedCommaIsScalar ==
  (phase = "loading" /\ Top.g_text # <<>>)
  => /\ (\E ln \in QuotedLines : IsPrefix(Top.g_text, ln))
          => Top.parse_action # "VALUE_ARRAY"
     /\ \A ln \in QuotedLines :
          (Top.g_text = ln /\ Top.section_ptr # <<>>)
            => /\ KeyOf(ln) \in DOMAIN section_data[Top.section_ptr[1]].values
               /\ section_data[Top.section_ptr[1]].values[KeyOf(ln)]
                    = QuotedBody(ln)
               /\ "," \in {QuotedBody(ln)[i] : i \in 1..Len(QuotedBody(ln))}
               /\ QUOTE \in {QuotedBody(ln)[i] : i \in 1..Len(QuotedBody(ln))}

\* the line k="a\"b,c" has been read under section a and a.k is a"b,c
C15_Witness ==
  /\ phase = "loading"
  /\ Top.g_text = K_q
  /\ Top.section_ptr = <<<<"a">>>>
  /\ section_data[<<"a">>].values[<<"k">>] = <<"a", QUOTE, "b", ",", "c">>

\* the characters the switch of load has a case for
SpecialChars ==
  {";", "|", " ", TAB, BS, QUOTE, "#", NL, "<", ">", "[", "]", ",", ":", "="}

TokenStates == {"SECTION", "INHERITANCE", "ATTRIBUTE", "KEY", "VALUE"}

\* a step of the loop that reads a space or a tab
ReadsSpace ==
  /\ phase = "loading" /\ phase' = "loading"
  /\ Len(stack') = Len(stack)
  /\ Top'.g_text = LineText(Top, <<Top'.g_text[Len(Top'.g_text)]>>)
  /\ Top'.g_text[Len(Top'.g_text)] \in {" ", TAB}

\* the space just read stands between two characters of one token
MidToken ==
  /\ Top.g_text # <<>>
  /\ Top.g_text[Len(Top.g_text)] \notin SpecialChars
  /\ Top'.rest # <<>>
  /\ Top'.rest[1] \notin SpecialChars

\* the space just read stands before the first character of a token
BeforeToken ==
  /\ Top.g_text # <<>>
  /\ Top.g_text[Len(Top.g_text)] \in {"[", ":", "=", ","}
  /\ Top'.rest # <<>>
  /\ Top'.rest[1] \notin SpecialChars

\* C16: a space or tab after the first character of a Section, Inheritance,
\* Attribute, Key or Value token emits a diagnostic and puts the parser in
\* Error; a space or tab before the first character of such a token is
\* skipped without error.
C16_MidTokenSpaceIsError ==
  [][(ReadsSpace /\ Top.parse_action \in TokenStates)
       => /\ MidToken => (/\ Top'.parse_action = "ERROR"
                          /\ diag' = <<"Space in wrong place">>)
          /\ BeforeToken => (/\ Top'.parse_action = Top.parse_action
                             /\ diag' = <<>>)]_vars

\* what the code does: between '[' and the end of the header token every
\* space is an error, everywhere else a space in a token state is skipped
C16_SpaceFlag ==
  [][(ReadsSpace /\ Top.parse_action \in TokenStates)
       => IF Top.ignore_current_spaces
          THEN Top'.parse_action = Top.parse_action /\ diag' = <<>>
          ELSE /\ Top'.parse_action = "ERROR"
               /\ diag' = <<"Space in wrong place">>]_vars

\* a step in which a load() meets the end of its input and returns
EndOfInput == phase = "loading" /\ Len(stack') = Len(stack) - 1

\* the last line read by the top frame has no terminating newline
Unterminated == Top.g_text # <<>> /\ Top.g_text[Len(Top.g_text)] # NL

\* the Document of the load of the input read so far with a newline
\* appended: the newline is read, then the end of input is met
WithNewlineAppended ==
  LET r == Iteration(Top, section_data, NL, <<>>)
  IN  Iteration(r.f, r.d, NL, <<>>).d

\* C17: end of input acts as one implicit trailing newline: when the last
\* line has no terminating newline the Document after load is the Document
\* of the same input with a newline appended, so a pending key/value,
\* inheritance or attribute is flushed into its section.
C17_EofIsNewline ==
  [][(EndOfInput /\ Unterminated /\ ~Top.eof)
       => /\ section_data' = WithNewlineAppended
          /\ (Top.section_ptr # <<>>)
               => LET sec == section_data'[Top.section_ptr[1]]
                  IN  /\ Top.parse_action \in {"VALUE", "VALUE_ARRAY"}
                           => /\ Top.key \in DOMAIN sec.values
                              /\ sec.values[Top.key] = Top.value
                      /\ (/\ Top.parse_action = "INHERITANCE"
                          /\ Top.inheritance \in DOMAIN section_data)
                           => /\ sec.inheritances # <<>>
                              /\ sec.inheritances[Len(sec.inheritances)]
                                   = Top.inheritance
                      /\ (/\ Top.parse_action = "ATTRIBUTE"
                          /\ Top.attribute # <<>>)
                           => /\ sec.attributes # <<>>
                              /\ sec.attributes[Len(sec.attributes)]
                                   = Top.attribute]_vars

\* a load has returned that met the end of input in VALUE with key k and
\* value 1 pending under section a, and a.k is 1
C17_Witness ==
  /\ phase = "ready"
  /\ last.op = "load"
  /\ last.ret = "VALUE"
  /\ last.section = <<<<"a">>>>
  /\ last.key = <<"k">> /\ last.default_value = <<"1">>
  /\ <<"k">> \in DOMAIN section_data[<<"a">>].values
  /\ section_data[<<"a">>].values[<<"k">>] = <<"1">>

\* loads have returned with an inheritance and with an attribute pending
C17_PendingInheritance ==
  /\ phase = "ready" /\ last.op = "load" /\ last.ret = "INHERITANCE"
  /\ <<"a">> \in DOMAIN section_data
  /\ section_data[<<"a">>].inheritances = <<<<"b">>>>

C17_PendingAttribute ==
  /\ phase = "ready" /\ last.op = "load" /\ last.ret = "ATTRIBUTE"
  /\ <<"a">> \in DOMAIN section_data
  /\ section_data[<<"a">>].attributes = <<<<"f">>>>

\* the top frame stands at the start of a physical line
AtLineStart ==
  Top.g_text = <<>> \/ Top.g_text[Len(Top.g_text)] = NL

\* C18: whenever the parser is in NewLine at the start of a physical line,
\* the key, value, inheritance, attribute and preprocessor-name buffers are
\* all empty.
C18_BuffersEmptyAtLineStart ==
  (phase = "loading" /\ Top.parse_action = "NEW_LINE" /\ AtLineStart)
  => /\ Top.key = <<>>
     /\ Top.value = <<>>
     /\ Top.inheritance = <<>>
     /\ Top.attribute = <<>>
     /\ Top.pp_first = <<>>
     /\ Top.pp_second = <<>>

\* C19: a ';' comment after key = value on the same line does not lose the
\* entry: once the line k=1;c has been read under a live section, the
\* section holds k = 1, as it would without the comment.
C19_TrailingCommentKeepsEntry ==
  (phase = "loading" /\ Top.g_text = K_1c /\ Top.section_ptr # <<>>)
  => /\ <<"k">> \in DOMAIN section_data[Top.section_ptr[1]].values
     /\ section_data[Top.section_ptr[1]].values[<<"k">>] = <<"1">>

\* C20: an entry is stored only while a live section context exists: while
\* the running load has no section context (before its first created
\* header, at the start of an included file whatever the section of the
\* including file, after a rejected header) no step changes a section of
\* the Document, and a section created by such a step is created empty.
C20_NoContextNoStore ==
  [][(phase = "loading" /\ Top.section_ptr = <<>>)
       => /\ \A X \in DOMAIN section_data :
               /\ X \in DOMAIN section_data'
               /\ section_data'[X] = section_data[X]
          /\ \A X \in DOMAIN section_data' :
               X \notin DOMAIN section_data
                 => section_data'[X] = EmptySection]_vars

\* an included file starts with the entry k=2 while the including file has
\* the current section a: the entry has ended and a has no k
C20_Witness ==
  /\ phase = "loading"
  /\ Depth = 2
  /\ Top.g_text = K_2
  /\ Top.g_entry = << <<"k">>, <<"2">> >>
  /\ Top.section_ptr = <<>>
  /\ Top.line = 2
  /\ stack[1].section_ptr = << <<"a">> >>
  /\ <<"k">> \notin DOMAIN section_data[<<"a">>].values

\* C23: set changes the Document only when the section exists and the key
\* is among that section's own values, and then only that one value, which
\* becomes the text of v; when the section or the own key is missing (also
\* when the key is visible through inheritance) it emits a diagnostic and
\* leaves the Document unchanged, creating no section and no key.
C23_SetOnlyExistingOwnKey ==
  [][Query({"set"})
       => LET s == last'.section
              k == last'.key
          IN  IF s \in DOMAIN section_data
                   /\ k \in DOMAIN section_data[s].values
              THEN /\ DOMAIN section_data' = DOMAIN section_data
                   /\ \A X \in DOMAIN section_data :
                        /\ section_data'[X].inheritances
                             = section_data[X].inheritances
                        /\ section_data'[X].attributes
                             = section_data[X].attributes
                        /\ DOMAIN section_data'[X].values
                             = DOMAIN section_data[X].values
                        /\ \A j \in DOMAIN section_data[X].values :
                             (X # s \/ j # k)
                               => section_data'[X].values[j]
                                    = section_data[X].values[j]
                   /\ makeValueFromString(section_data'[s].values[k])
                        = [thrown |-> FALSE, val |-> last'.default_value]
              ELSE /\ section_data' = section_data
                   /\ Len(diag') = 1]_vars

\* set("b", "k", v) was called where b has no own k and inherits it from c:
\* a diagnostic was emitted and b still has no own k
C23_Witness ==
  /\ last.op = "set"
  /\ last.section = <<"b">> /\ last.key = <<"k">>
  /\ <<"b">> \in DOMAIN section_data
  /\ <<"k">> \notin DOMAIN section_data[<<"b">>].values
  /\ getString(section_data, <<"b">>, <<"k">>, <<>>) # <<>>
  /\ diag = <<"Key is not exist">>

\* set("c", "k", 12) was called on an own key and c.k is now 12
C23_Changed ==
  /\ last.op = "set"
  /\ last.section = <<"c">> /\ last.key = <<"k">>
  /\ last.default_value = 12
  /\ <<"c">> \in DOMAIN section_data
  /\ <<"k">> \in DOMAIN section_data[<<"c">>].values
  /\ section_data[<<"c">>].values[<<"k">>] = <<"1", "2">>

\* the top frame reads the '|' that closes a block comment
ClosesComment == Reading("|") /\ Top.parse_action = "MULTILINE_COMMENT"

\* the top frame reads the newline of the line k|c|j=1, a line it began
\* with empty key and value buffers under a live section
EndsInterruptedKey ==
  /\ Reading(NL)
  /\ Top.g_text = SubSeq(K_kcj, 1, Len(K_kcj) - 1)
  /\ Top.g_line.f.parse_action = "NEW_LINE"
  /\ Top.g_line.f.key = <<>> /\ Top.g_line.f.value = <<>>
  /\ Top.section_ptr # <<>>

\* C22: the '|' that closes a block comment puts the parser in NewLine
\* whatever state the comment interrupted, and the interrupted token is
\* neither flushed into the Document nor resumed: the close stores nothing,
\* and the key k interrupted in k|c|j=1 is not continued by the j after the
\* comment.
C22_BlockCommentDropsToken ==
  [][/\ ClosesComment
          => (Top'.parse_action = "NEW_LINE" /\ section_data' = section_data)
     /\ EndsInterruptedKey
          => <<"k", "j">>
               \notin DOMAIN section_data'[Top.section_ptr[1]].values]_vars

\* the state half of C22: every closing '|' leads to NewLine, stores
\* nothing and leaves the buffers of the interrupted token as they are
C22_CloseGoesToNewLine ==
  [][ClosesComment
       => /\ Top'.parse_action = "NEW_LINE"
          /\ section_data' = section_data
          /\ Top'.key = Top.key /\ Top'.value = Top.value
          /\ Top'.inheritance = Top.inheritance
          /\ Top'.attribute = Top.attribute
          /\ Top'.section = Top.section]_vars

\* the longest line a file can hold
MaxLineLen ==
  LET lens == {Len(ln) : ln \in UNION {Chunks(fm, dp) :
                                         fm \in Families, dp \in 1..MaxDepth}}
  IN  CHOOSE n \in lens : \A m \in lens : m <= n

\* a bound on the characters the load at depth i has still to read; -1 when
\* no load runs at that depth
Remaining(st, i) ==
  IF i <= Len(st) THEN Len(st[i].rest) + st[i].more * MaxLineLen ELSE -1

\* the loads of st2 have less to read than those of st1, the outermost load
\* counting first
LessToRead(st2, st1) ==
  \E i \in 1..MaxDepth :
    /\ Remaining(st2, i) < Remaining(st1, i)
    /\ \A j \in 1..(i - 1) : Remaining(st2, j) = Remaining(st1, j)

\* the guards of the three steps of a running load: the end of input can be
\* met, or a character can be read, or an include can be entered or fail
CanStep ==
  /\ Top.pc = "loop"
  /\ \/ Top.rest = <<>>
     \/ /\ ~Top.eof
        /\ \E text \in Inputs(Top) :
             (Head(text) = ">" /\ Top.parse_action = "INCLUDE"
                /\ base_path \o Top.pp_second \in Files)
               => Depth < MaxDepth

\* CanStep is the enabling condition of the steps of a running load
CanStepIsEnabled ==
  phase = "loading" => (CanStep <=> ENABLED (ReadChar \/ IncludeFile \/ Eof))

\* C21: load terminates when the includes are acyclic: while a load runs an
\* iteration of the innermost loop can always be taken, each one consumes a
\* character of its file, enters a nested load or meets the end of input
\* and returns, and the loads that wait for a nested load read nothing
\* until it has returned; what is left to read decreases with every step.
C21_LoadTerminates ==
  /\ [](phase = "loading" => CanStep)
  /\ [][phase = "loading"
          => /\ phase' = "ready" \/ LessToRead(stack', stack)
             /\ \A i \in 1..(Len(stack) - 1) :
                  i < Len(stack')
                    => /\ stack'[i].rest = stack[i].rest
                       /\ stack'[i].more = stack[i].more]_vars

\* a top-level load has returned after a nested load of an included file
\* that created section x
C21_Witness ==
  /\ phase = "ready"
  /\ last.op = "load"
  /\ current_file = MainPath
  /\ hasSection(section_data, <<"x">>)
  /\ stack = <<>>

====
